---- MODULE Spec2Model ----
(***************************************************************************)
(* Sign comparison engine of src/lib/signComparison.ts                     *)
(* (SignComparisonService): feature extraction, resampling, DTW, blended   *)
(* similarity, ranking and best-match selection.                           *)
(*                                                                         *)
(* JavaScript numbers are modelled as fixed-point integers with SCALE      *)
(* units per 1.0; the two non-finite values the code can produce are the   *)
(* distinguished values Infinity and NaN, and every arithmetic helper      *)
(* below treats them as IEEE-754 does.  JavaScript arrays are sequences    *)
(* (index i of the source is index i+1 here); an absent property of an     *)
(* object is an absent field of the record; a null/undefined argument is   *)
(* Null and a present one is Some(value).                                  *)
(***************************************************************************)
EXTENDS Integers, Sequences, FiniteSets, TLC

VARIABLES
  recordedFrames,  \* argument of compareWithDatabase / findBestMatch
  savedSigns,      \* argument of compareWithDatabase / findBestMatch
  results,         \* list returned by the last compareWithDatabase call
  best,            \* value returned by the last findBestMatch call
  call,            \* the last public method called on the service
  frameData,       \* argument of extractFeatures
  features,        \* vector returned by the last extractFeatures call
  thrown,          \* TRUE when the last extractFeatures call threw
  inputFrames,     \* argument of normalizeSequence
  normalized,      \* list returned by the last normalizeSequence call
  compared,        \* the two arguments of compareSequences
  selfScore,       \* compareSequences of the first argument with itself
  score,           \* compareSequences of the two arguments
  reverseScore,    \* compareSequences of the two arguments, exchanged
  dtwArguments,    \* the two arguments of calculateDTW
  dtw,             \* the matrix calculateDTW has filled
  dtwReturned,     \* the value calculateDTW returned
  handLandmarker,  \* HandDetector.handLandmarker: "null" or "open"
  faceLandmarker,  \* HandDetector.faceLandmarker: "null" or "open"
  onResults,       \* HandDetector.onResults is set
  isProcessing,    \* HandDetector.isProcessing
  animationFrameId,\* HandDetector.animationFrameId: "null" or "set"
  isAndroid,       \* HandDetector.isAndroid
  initializing,    \* where HandDetector.initialize stands
  scheduled,       \* the pending call of detectHands: "none", "frame", "timer"
  stopped,         \* HandDetector.stop has returned
  callbacks,       \* calls of the results callback so far
  callbacksAtStop, \* calls of the results callback when stop returned
  isOnline,        \* HybridSignService.isOnline
  hasSupabaseAuth, \* HybridSignService.hasSupabaseAuth
  migrationCompleted, \* HybridSignService.migrationCompleted
  localStore,      \* the signs held by signDatabase (IndexedDB)
  cloudStore,      \* for each sign, its records held by supabaseSignService
  savedLocally,    \* the signs saveSign has put into signDatabase so far
  saved,           \* calls of saveSign so far
  cloudAccepts,    \* a save to the cloud succeeds when it is made now
  onlineFired,     \* the 'online' event has fired
  initializePc,    \* where HybridSignService.initialize stands
  migration        \* where each run of migrateLocalDataToSupabase stands

matcherVars   == <<recordedFrames, savedSigns, results, best, call>>
extractVars   == <<frameData, features, thrown>>
normalizeVars == <<inputFrames, normalized>>
compareVars   == <<compared, selfScore, score, reverseScore>>
dtwVars       == <<dtwArguments, dtw, dtwReturned>>
detectorVars  ==
  <<handLandmarker, faceLandmarker, onResults, isProcessing, animationFrameId,
    isAndroid, initializing, scheduled, stopped, callbacks, callbacksAtStop>>

hybridVars ==
  <<isOnline, hasSupabaseAuth, migrationCompleted, localStore, cloudStore,
    savedLocally, saved, cloudAccepts, onlineFired, initializePc, migration>>

vars ==
  <<matcherVars, extractVars, normalizeVars, compareVars, dtwVars, detectorVars,
    hybridVars>>

(***************************************************************************)
(* Bounds of the model.                                                    *)
(***************************************************************************)
MaxFrames == 2   \* longest frame sequence drawn as an input
MaxSigns  == 2   \* largest library drawn as an input
MaxHands  == 3   \* most hands in one frame drawn as an input
MaxLength == 64  \* longest recording handed to normalizeSequence alone

(***************************************************************************)
(* Numbers.                                                                *)
(***************************************************************************)
SCALE    == 50
Infinity == 2000000000
NaN      == -2000000000

isNaN(x)    == x = NaN
isFinite(x) == x # NaN /\ x # Infinity

Mid(lo, hi) == (lo + hi) \div 2
Last(s)     == s[Len(s)]

\* a + b
Add(a, b) ==
  IF a = NaN \/ b = NaN THEN NaN
  ELSE IF a = Infinity \/ b = Infinity THEN Infinity
  ELSE a + b

\* a / n for a positive integer n
DivInt(a, n) ==
  IF a = NaN THEN NaN
  ELSE IF a = Infinity THEN Infinity
  ELSE a \div n

\* Math.min, Math.max: NaN if either argument is NaN
MathMin(a, b) ==
  IF a = NaN \/ b = NaN THEN NaN ELSE IF a < b THEN a ELSE b
MathMax(a, b) ==
  IF a = NaN \/ b = NaN THEN NaN ELSE IF a > b THEN a ELSE b

\* a >= b: false when either side is NaN
GreaterEq(a, b) == a # NaN /\ b # NaN /\ a >= b

\* largest r in lo..hi with r^k <= n (k = 2 or 5), by bisection
RECURSIVE RootSearch(_, _, _, _)
RootSearch(n, k, lo, hi) ==
  IF lo >= hi THEN lo
  ELSE LET mid == (lo + hi + 1) \div 2
           pw  == IF k = 2 THEN mid * mid ELSE mid * mid * mid * mid * mid
       IN IF pw <= n THEN RootSearch(n, k, mid, hi)
          ELSE RootSearch(n, k, lo, mid - 1)

\* Math.sqrt of a non-negative number given in squared units
MathSqrt(n) == RootSearch(n, 2, 0, 46340)

\* Math.pow(x, 1.2) = x * x^(1/5) for 0 <= x <= 2; NaN for a negative base
MathPow12(x) ==
  IF x = NaN \/ x < 0 THEN NaN
  ELSE (x * RootSearch(x * SCALE * SCALE * SCALE * SCALE, 5, 0, 57)) \div SCALE

(***************************************************************************)
(* Program constants.                                                      *)
(***************************************************************************)
SIMILARITY_THRESHOLD == 46   \* 0.92 * SCALE
TARGET_FRAMES        == 60
MIN_QUALITY_FRAMES   == 40   \* declared at line 13, read nowhere
maxDistance          == 10

(***************************************************************************)
(* Input data: landmarks, hands and frames (FrameData of mediapipe.ts).    *)
(***************************************************************************)
Null    == <<>>
Some(v) == <<v>>

Point(px, py, pz) == [x |-> px, y |-> py, z |-> pz]

\* a hand of n landmarks: the wrist at w, every other landmark at p
HandOf(n, w, p) ==
  [landmarks |-> [i \in 1..n |-> IF i = 1 THEN w ELSE p],
   handedness |-> "Right"]

handA == HandOf(21, Point(0, 0, 0), Point(50, 50, 0))     \* fingers up-right of the wrist
handB == HandOf(21, Point(50, 50, 0), Point(0, 0, 0))     \* the mirror image of handA
handC == HandOf(21, Point(0, 0, 0), Point(50, 40, 0))     \* close to handA
handT == HandOf(21, Point(20, 10, 0), Point(70, 60, 0))   \* handA, translated
handZ == HandOf(21, Point(30, 30, 0), Point(30, 30, 0))   \* all landmarks coincide
handP == HandOf(20, Point(0, 0, 0), Point(50, 50, 0))     \* partial detection

HandPool == {handA, handB, handP, handZ}

RECURSIVE SeqsUpTo(_, _)
SeqsUpTo(S, n) ==
  IF n = 0 THEN {<<>>}
  ELSE LET shorter == SeqsUpTo(S, n - 1)
       IN shorter \cup {Append(s, e) : s \in {t \in shorter : Len(t) = n - 1}, e \in S}

Frame(hs) == [timestamp |-> 0, hands |-> hs]

\* a stored frame without a hands list
frameBad == [timestamp |-> 0]

frame0 == Frame(<<>>)
frameA == Frame(<<handA>>)
frameB == Frame(<<handB>>)
frameC == Frame(<<handC>>)
frameT == Frame(<<handT>>)
frameZ == Frame(<<handZ>>)

\* the face landmarks of a frame: the list of mediapipe's face mesh, of which
\* only the points used as a facial reference are kept (33 and 263 the eye
\* corners, 1 the nose tip, 6 the nose bridge, 10 the forehead, 175 the chin)
FaceOf(leftEye, rightEye, noseTip, noseBridge, forehead, chin) ==
  [landmarks |->
     [i \in {1, 6, 10, 33, 175, 263} |->
        CASE i = 33  -> leftEye
          [] i = 263 -> rightEye
          [] i = 1   -> noseTip
          [] i = 6   -> noseBridge
          [] i = 10  -> forehead
          [] OTHER   -> chin]]

\* a face one unit wide between the eyes and two units high
faceF == FaceOf(Point(10, 20, 0), Point(60, 20, 0), Point(35, 50, 0),
                Point(35, 20, 0), Point(35, 0, 0), Point(35, 100, 0))

\* a face whose landmarks all coincide
faceFlat == FaceOf(Point(35, 30, 0), Point(35, 30, 0), Point(35, 30, 0),
                   Point(35, 30, 0), Point(35, 30, 0), Point(35, 30, 0))

FaceFrame(hs, f) == [timestamp |-> 0, hands |-> hs, face |-> f]

\* frames handed to extractFeatures
ExtractPool ==
  {Frame(hs) : hs \in SeqsUpTo(HandPool, MaxHands)}
    \cup {FaceFrame(hs, f) : hs \in SeqsUpTo({handA, handT}, 1), f \in {faceF, faceFlat}}
    \cup {frameBad}

(***************************************************************************)
(* extractFeatures (signComparison.ts 35-85).                              *)
(***************************************************************************)
keyLandmarks == <<0, 4, 8, 12, 16, 20>>

IsKeyLandmark(index) == \E k \in 1..Len(keyLandmarks) : keyLandmarks[k] = index

Zeros(n) == [i \in 1..n |-> 0]

\* v * weight, weight = 1.5 for a key landmark and 1.0 otherwise
Weighted(v, index) == IF IsKeyLandmark(index) THEN (v * 3) \div 2 ELSE v

\* the three pushes of the inner forEach for landmarks lo..hi (source indices)
RECURSIVE CoordFeatures(_, _, _)
CoordFeatures(hand, lo, hi) ==
  IF lo > hi THEN <<>>
  ELSE IF lo = hi THEN
    LET wrist    == hand.landmarks[1]
        landmark == hand.landmarks[lo + 1]
    IN << Weighted(landmark.x - wrist.x, lo),
          Weighted(landmark.y - wrist.y, lo),
          Weighted(landmark.z - wrist.z, lo) >>
  ELSE CoordFeatures(hand, lo, Mid(lo, hi)) \o CoordFeatures(hand, Mid(lo, hi) + 1, hi)

\* distance between key landmarks number i and j of the hand
KeyDistance(hand, i, j) ==
  LET p1 == hand.landmarks[keyLandmarks[i] + 1]
      p2 == hand.landmarks[keyLandmarks[j] + 1]
  IN MathSqrt((p1.x - p2.x) * (p1.x - p2.x)
            + (p1.y - p2.y) * (p1.y - p2.y)
            + (p1.z - p2.z) * (p1.z - p2.z))

\* the pushes of the double loop over key landmarks, for i from i on and j from j on
RECURSIVE DistanceFeatures(_, _, _)
DistanceFeatures(hand, i, j) ==
  IF i > Len(keyLandmarks) - 1 THEN <<>>
  ELSE IF j > Len(keyLandmarks) THEN DistanceFeatures(hand, i + 1, i + 2)
  ELSE <<KeyDistance(hand, i, j)>> \o DistanceFeatures(hand, i, j + 1)

\* what one iteration of frameData.hands.forEach pushes
HandFeatures(hand) ==
  IF Len(hand.landmarks) # 21 THEN <<>>
  ELSE CoordFeatures(hand, 0, 20) \o DistanceFeatures(hand, 1, 2)

RECURSIVE AllHandFeatures(_, _, _)
AllHandFeatures(hands, lo, hi) ==
  IF lo > hi THEN <<>>
  ELSE IF lo = hi THEN HandFeatures(hands[lo])
  ELSE AllHandFeatures(hands, lo, Mid(lo, hi)) \o AllHandFeatures(hands, Mid(lo, hi) + 1, hi)

\* frameData.hands.forEach on a frame without a hands list is a TypeError
extractFeaturesThrows(frame) ==
  \/ "hands" \notin DOMAIN frame
  \/ \E h \in 1..Len(frame.hands) : "landmarks" \notin DOMAIN frame.hands[h]

\* a vector of the full length 156 also for a frame that pushed nothing
normalizedLengthFull(pushed) ==
  IF Len(pushed) < 156 THEN pushed \o Zeros(156 - Len(pushed))
  ELSE SubSeq(pushed, 1, 156)

\* lines 74-84: what is returned once the loop over the hands has pushed
normalizedLength(pushed) ==
  IF Len(pushed) = 0 THEN Zeros(78)
  ELSE IF Len(pushed) < 156 THEN pushed \o Zeros(156 - Len(pushed))
  ELSE SubSeq(pushed, 1, 156)

extractFeatures(frame) ==
  normalizedLength(AllHandFeatures(frame.hands, 1, Len(frame.hands)))

(***************************************************************************)
(* Inputs of the matcher.  A stored sign is a record with id, name and,    *)
(* unless the property is absent, keyframes.                               *)
(***************************************************************************)
\* frames a recording may contain
RecordedPool == {frame0, frameA, frameB, frameC}

Sign(i, n, kf) == [id |-> i, name |-> n, keyframes |-> kf]

SignStore ==
  { Sign(1, "A",     <<frameA>>),
    Sign(2, "A-moved", <<frameT>>),
    Sign(3, "B",     <<frameB>>),
    Sign(4, "A-C",   <<frameA, frameC>>),
    Sign(5, "empty", <<>>),
    [id |-> 6, name |-> "no-keyframes"],
    Sign(7, "malformed", <<frameBad>>),
    Sign(8, "no-hand", <<frame0>>),
    Sign(9, "A-then-no-hand", <<frameA, frame0>>) }

Recordings == SeqsUpTo(RecordedPool, MaxFrames)

HasKeyframes(sign) == "keyframes" \in DOMAIN sign /\ Len(sign.keyframes) > 0

StoredSequences == {sign.keyframes : sign \in {t \in SignStore : HasKeyframes(t)}}

\* libraries: lists of distinct stored signs
Libraries ==
  {lib \in SeqsUpTo(SignStore, MaxSigns) :
     \A i, j \in 1..Len(lib) : i # j => lib[i] # lib[j]}

\* every well-formed frame that can reach extractFeatures during matching
WellFormedFrames ==
  {f \in RecordedPool \cup UNION {{q[i] : i \in 1..Len(q)} : q \in StoredSequences} :
     ~extractFeaturesThrows(f)}

\* TLC evaluates a constant function once: the tables below hold the values
\* of the pure functions on the inputs of the model, so that the 60 x 60
\* table of calculateDTW looks a distance up instead of recomputing it.
FeaturesOf == [f \in WellFormedFrames |-> extractFeatures(f)]

FeatureVectors == {FeaturesOf[f] : f \in DOMAIN FeaturesOf}

(***************************************************************************)
(* normalizeSequence (signComparison.ts 18-30).                            *)
(***************************************************************************)
\* Math.floor in place of Math.round
RoundedIndexFloor(i, n) == (i * (n - 1)) \div (TARGET_FRAMES - 1)

\* Math.floor(i * step) for step = n / TARGET_FRAMES
RoundedIndexByLength(i, n) == (i * n) \div TARGET_FRAMES

\* Math.round(i * step), step = (n - 1) / (TARGET_FRAMES - 1)
RoundedIndex(i, n) ==
  (2 * i * (n - 1) + (TARGET_FRAMES - 1)) \div (2 * (TARGET_FRAMES - 1))

\* the frames pushed for i = lo..hi
RECURSIVE NormalizedFrames(_, _, _)
NormalizedFrames(frames, lo, hi) ==
  IF lo > hi THEN <<>>
  ELSE IF lo = hi THEN
    LET index == RoundedIndex(lo, Len(frames))
    IN << frames[(IF index < Len(frames) - 1 THEN index ELSE Len(frames) - 1) + 1] >>
  ELSE NormalizedFrames(frames, lo, Mid(lo, hi)) \o NormalizedFrames(frames, Mid(lo, hi) + 1, hi)

\* a resampling that leaves a recording shorter than the target as it is
normalizeSequenceStretchless(frames) ==
  IF Len(frames) < TARGET_FRAMES THEN frames
  ELSE NormalizedFrames(frames, 0, TARGET_FRAMES - 1)

normalizeSequence(frames) ==
  IF Len(frames) = 0 THEN <<>>
  ELSE NormalizedFrames(frames, 0, TARGET_FRAMES - 1)

(***************************************************************************)
(* cosineSimilarity (88-106), euclideanDistance (149-158).                 *)
(***************************************************************************)
RECURSIVE DotProduct(_, _, _, _)
DotProduct(a, b, lo, hi) ==
  IF lo > hi THEN 0
  ELSE IF lo = hi THEN a[lo] * b[lo]
  ELSE DotProduct(a, b, lo, Mid(lo, hi)) + DotProduct(a, b, Mid(lo, hi) + 1, hi)

cosineSimilarity(a, b) ==
  IF Len(a) # Len(b) THEN 0
  ELSE LET dotProduct == DotProduct(a, b, 1, Len(a))
           normA == DotProduct(a, a, 1, Len(a))
           normB == DotProduct(b, b, 1, Len(b))
       IN IF normA = 0 \/ normB = 0 THEN 0
          ELSE (dotProduct * SCALE) \div (MathSqrt(normA) * MathSqrt(normB))

RECURSIVE SquaredDifferences(_, _, _, _)
SquaredDifferences(a, b, lo, hi) ==
  IF lo > hi THEN 0
  ELSE IF lo = hi THEN (a[lo] - b[lo]) * (a[lo] - b[lo])
  ELSE SquaredDifferences(a, b, lo, Mid(lo, hi))
         + SquaredDifferences(a, b, Mid(lo, hi) + 1, hi)

\* a distance with the length guard of cosineSimilarity: 0 on a mismatch
euclideanDistanceZeroOnMismatch(a, b) ==
  IF Len(a) # Len(b) THEN 0
  ELSE MathSqrt(SquaredDifferences(a, b, 1, Len(a)))

euclideanDistance(a, b) ==
  IF Len(a) # Len(b) THEN Infinity
  ELSE MathSqrt(SquaredDifferences(a, b, 1, Len(a)))

DistanceOf == [a, b \in FeatureVectors |-> euclideanDistance(a, b)]
CosineOf   == [a, b \in FeatureVectors |-> cosineSimilarity(a, b)]

(***************************************************************************)
(* calculateDTW (111-144).  The matrix is built row by row; a row is built *)
(* left to right, each cell from the cell on its left (carry) and the row  *)
(* above (prev).                                                           *)
(***************************************************************************)
Min3(a, b, c) == MathMin(MathMin(a, b), c)

\* a cell that never takes the diagonal step dtw[i-1][j-1]
dtwCellNoDiagonal(cost, prev, carry, i, j) ==
  IF i = 1 /\ j = 1 THEN cost
  ELSE IF i = 1 THEN Add(carry, cost)
  ELSE IF j = 1 THEN Add(prev[1], cost)
  ELSE Add(cost, MathMin(prev[j], carry))

\* dtw[i][j] (1-based) for the distance cost of the two frames
dtwCell(cost, prev, carry, i, j) ==
  IF i = 1 /\ j = 1 THEN cost
  ELSE IF i = 1 THEN Add(carry, cost)
  ELSE IF j = 1 THEN Add(prev[1], cost)
  ELSE Add(cost, Min3(prev[j], carry, prev[j - 1]))

\* cells lo..hi of row i, given the cell left of lo and the row above
RECURSIVE RowCells(_, _, _, _, _, _, _)
RowCells(seq1, seq2, prev, i, carry, lo, hi) ==
  IF lo > hi THEN <<>>
  ELSE IF lo = hi THEN
    << dtwCell(DistanceOf[seq1[i], seq2[lo]], prev, carry, i, lo) >>
  ELSE LET left == RowCells(seq1, seq2, prev, i, carry, lo, Mid(lo, hi))
       IN left \o RowCells(seq1, seq2, prev, i, Last(left), Mid(lo, hi) + 1, hi)

\* rows lo..hi of the matrix, given the row above lo
RECURSIVE Rows(_, _, _, _, _)
Rows(seq1, seq2, prev, lo, hi) ==
  IF lo > hi THEN <<>>
  ELSE IF lo = hi THEN << RowCells(seq1, seq2, prev, lo, 0, 1, Len(seq2)) >>
  ELSE LET top == Rows(seq1, seq2, prev, lo, Mid(lo, hi))
       IN top \o Rows(seq1, seq2, Last(top), Mid(lo, hi) + 1, hi)

dtwMatrix(seq1, seq2) == Rows(seq1, seq2, <<>>, 1, Len(seq1))

calculateDTW(seq1, seq2) ==
  DivInt(dtwMatrix(seq1, seq2)[Len(seq1)][Len(seq2)], Len(seq1) + Len(seq2))

(***************************************************************************)
(* compareSequences (163-232).                                             *)
(***************************************************************************)
\* norm.map(frame => this.extractFeatures(frame)) for frames lo..hi
RECURSIVE MapFeatures(_, _, _)
MapFeatures(norm, lo, hi) ==
  IF lo > hi THEN <<>>
  ELSE IF lo = hi THEN << FeaturesOf[norm[lo]] >>
  ELSE MapFeatures(norm, lo, Mid(lo, hi)) \o MapFeatures(norm, Mid(lo, hi) + 1, hi)

\* lines 209-212: what one iteration adds to cosineSimilaritySum
cosineTerm(cosineResult) ==
  IF ~isNaN(cosineResult) /\ isFinite(cosineResult) THEN cosineResult ELSE 0

\* cosineSimilaritySum after iterations lo..hi (1-based) of the loop
RECURSIVE CosineSum(_, _, _, _)
CosineSum(features1, features2, lo, hi) ==
  IF lo > hi THEN 0
  ELSE IF lo = hi THEN cosineTerm(CosineOf[features1[lo], features2[lo]])
  ELSE CosineSum(features1, features2, lo, Mid(lo, hi))
         + CosineSum(features1, features2, Mid(lo, hi) + 1, hi)

\* isNaN(v) ? 0 : v of lines 218 and 219
zeroIfNaN(v) == IF isNaN(v) THEN 0 ELSE v

\* finalSimilarity of line 222, before the sharpening power
blend(finalDtwSim, finalCosineSim) == (finalDtwSim * 7 + finalCosineSim * 3) \div 10

\* lines 205-215: the average cosine similarity over the first minFrames frames
averageCosine(features1, features2, minFrames) ==
  IF minFrames > 0 THEN CosineSum(features1, features2, 1, minFrames) \div minFrames
  ELSE 0

\* lines 195-227, from the DTW distance and the feature sequences on
similarityFrom(dtwDistance, features1, features2) ==
  IF isNaN(dtwDistance) \/ ~isFinite(dtwDistance) THEN 0
  ELSE
    LET dtwSimilarity == MathMax(0, SCALE - (dtwDistance \div maxDistance))
        minFrames == IF Len(features1) < Len(features2) THEN Len(features1)
                     ELSE Len(features2)
        avgCosineSimilarity == averageCosine(features1, features2, minFrames)
        finalDtwSim == zeroIfNaN(dtwSimilarity)
        finalCosineSim == zeroIfNaN(avgCosineSimilarity)
        finalSimilarity == blend(finalDtwSim, finalCosineSim)
        smoothedSimilarity == MathPow12(finalSimilarity)
    IN MathMax(0, MathMin(SCALE, smoothedSimilarity))

\* lines 186-227, from the two feature sequences on
compareFeatures(features1, features2) ==
  IF Len(features1) = 0 \/ Len(features2) = 0 THEN 0
  ELSE similarityFrom(calculateDTW(features1, features2), features1, features2)

\* lines 176-227, from the two normalized sequences on
compareNormalized(norm1, norm2) ==
  IF Len(norm1) = 0 \/ Len(norm2) = 0 THEN 0
  ELSE IF \/ \E i \in 1..Len(norm1) : extractFeaturesThrows(norm1[i])
          \/ \E i \in 1..Len(norm2) : extractFeaturesThrows(norm2[i])
  THEN 0    \* the TypeError is caught at line 228
  ELSE compareFeatures(MapFeatures(norm1, 1, Len(norm1)),
                       MapFeatures(norm2, 1, Len(norm2)))

\* a comparison that reads an empty sequence as one frame without hands
compareSequencesEmptyAsStill(sequence1, sequence2) ==
  compareNormalized(normalizeSequence(IF Len(sequence1) = 0 THEN <<frame0>> ELSE sequence1),
                    normalizeSequence(IF Len(sequence2) = 0 THEN <<frame0>> ELSE sequence2))

\* a comparison that resamples the first sequence only
compareSequencesSecondAsStored(sequence1, sequence2) ==
  IF Len(sequence1) = 0 \/ Len(sequence2) = 0 THEN 0
  ELSE compareNormalized(normalizeSequence(sequence1), sequence2)

compareSequences(sequence1, sequence2) ==
  IF Len(sequence1) = 0 \/ Len(sequence2) = 0 THEN 0
  ELSE compareNormalized(normalizeSequence(sequence1), normalizeSequence(sequence2))

ScoreOf ==
  [sequence1 \in Recordings, sequence2 \in StoredSequences |->
     compareSequences(sequence1, sequence2)]

(***************************************************************************)
(* compareWithDatabase (237-277) and findBestMatch (282-290).              *)
(***************************************************************************)
\* the threshold of an earlier revision (0.8) in place of SIMILARITY_THRESHOLD
isMatchOfLoose(similarity) == GreaterEq(similarity, 40)

isMatchOf(similarity) == GreaterEq(similarity, SIMILARITY_THRESHOLD)

\* a push that leaves out the signs whose similarity is 0
pushedForDroppingZero(savedSign, similarity) ==
  IF similarity = 0 THEN <<>>
  ELSE << [signId |-> savedSign.id,
           signName |-> savedSign.name,
           similarity |-> similarity,
           isMatch |-> isMatchOf(similarity)] >>

\* lines 262-267: the result pushed for a sign of the given similarity
pushedFor(savedSign, similarity) ==
  << [signId |-> savedSign.id,
      signName |-> savedSign.name,
      similarity |-> similarity,
      isMatch |-> isMatchOf(similarity)] >>

\* what one iteration of the loop over savedSigns pushes
resultsFor(frames, savedSign) ==
  IF ~HasKeyframes(savedSign) THEN <<>>
  ELSE pushedFor(savedSign, ScoreOf[frames, savedSign.keyframes])

RECURSIVE pushedResults(_, _, _, _)
pushedResults(frames, signs, lo, hi) ==
  IF lo > hi THEN <<>>
  ELSE IF lo = hi THEN resultsFor(frames, signs[lo])
  ELSE pushedResults(frames, signs, lo, Mid(lo, hi))
         \o pushedResults(frames, signs, Mid(lo, hi) + 1, hi)

\* the comparator (a, b) => b.similarity - a.similarity; sort reads NaN as +0
comparator(a, b) ==
  IF isNaN(a.similarity) \/ isNaN(b.similarity) THEN 0
  ELSE b.similarity - a.similarity

\* ECMAScript: the comparator is consistent on the list
consistentComparator(list) ==
  \A i, j, k \in 1..Len(list) :
    (comparator(list[i], list[j]) = 0 /\ comparator(list[j], list[k]) = 0)
      => comparator(list[i], list[k]) = 0

\* e inserted behind every element that does not sort after it
RECURSIVE insertSorted(_, _)
insertSorted(sorted, e) ==
  IF Len(sorted) = 0 THEN <<e>>
  ELSE IF comparator(Last(sorted), e) <= 0 THEN Append(sorted, e)
  ELSE Append(insertSorted(SubSeq(sorted, 1, Len(sorted) - 1), e), Last(sorted))

RECURSIVE stableSort(_)
stableSort(list) ==
  IF Len(list) = 0 THEN <<>>
  ELSE insertSorted(stableSort(SubSeq(list, 1, Len(list) - 1)), Last(list))

\* Array.prototype.sort: stable for a consistent comparator, otherwise the
\* order is implementation-defined
sortOutcomes(list) ==
  IF consistentComparator(list) THEN {stableSort(list)}
  ELSE {[i \in 1..Len(list) |-> list[p[i]]] : p \in Permutations(1..Len(list))}

\* compareWithDatabase testing its arguments for null only, not for length 0
compareWithDatabaseUnguarded(frames, signs) ==
  IF frames = Null THEN {<<>>}
  ELSE IF signs = Null THEN {<<>>}
  ELSE sortOutcomes(pushedResults(frames[1], signs[1], 1, Len(signs[1])))

\* the lists a call of compareWithDatabase can return
compareWithDatabase(frames, signs) ==
  IF frames = Null \/ Len(frames[1]) = 0 THEN {<<>>}
  ELSE IF signs = Null \/ Len(signs[1]) = 0 THEN {<<>>}
  ELSE sortOutcomes(pushedResults(frames[1], signs[1], 1, Len(signs[1])))

\* findBestMatch returning the top result whether or not it is a match
bestOfAnyTop(list) ==
  IF Len(list) > 0 THEN Some(list[1]) ELSE Null

\* what findBestMatch returns when its compareWithDatabase call returned list
bestOf(list) ==
  IF Len(list) > 0 /\ list[1].isMatch THEN Some(list[1]) ELSE Null

(***************************************************************************)
(* Specification of the matcher: a recording and a library are given, and  *)
(* the two public methods are called on them any number of times.          *)
(***************************************************************************)
Idle == <<>>

\* the variables of the other operations while one operation is exercised
MatcherIdle ==
  /\ recordedFrames = Null
  /\ savedSigns = Null
  /\ results = <<>>
  /\ best = Null
  /\ call = "none"

ExtractIdle == frameData = frame0 /\ features = Idle /\ thrown = FALSE

NormalizeIdle == inputFrames = <<>> /\ normalized = Null

CompareIdle ==
  compared = <<>> /\ selfScore = Null /\ score = Null /\ reverseScore = Null

DtwIdle == dtwArguments = <<>> /\ dtw = Null /\ dtwReturned = Null

\* a HandDetector just constructed (mediapipe.ts 32-39)
DetectorFields ==
  /\ handLandmarker = "null"
  /\ faceLandmarker = "null"
  /\ onResults = FALSE
  /\ isProcessing = FALSE
  /\ animationFrameId = "null"
  /\ initializing = "notCalled"
  /\ scheduled = "none"
  /\ stopped = FALSE
  /\ callbacks = 0
  /\ callbacksAtStop = Null

DetectorIdle == DetectorFields /\ isAndroid = FALSE

MaxSaves  == 2   \* calls of saveSign followed
MaxCopies == 2   \* cloud records of one sign followed

\* the runs of migrateLocalDataToSupabase: the one initialize starts and the
\* one the 'online' listener starts through syncIfPossible
Runs == {"initialize", "online"}

NotStarted == [pc |-> "idle", localSigns |-> <<>>, i |-> 0]

\* a HybridSignService just constructed (part_003 19-21), nothing stored
HybridFields ==
  /\ hasSupabaseAuth = FALSE
  /\ migrationCompleted = FALSE
  /\ localStore = {}
  /\ cloudStore = [sign \in 1..MaxSaves |-> 0]
  /\ savedLocally = {}
  /\ saved = 0
  /\ onlineFired = FALSE
  /\ initializePc = "notCalled"
  /\ migration = [run \in Runs |-> NotStarted]

HybridIdle == HybridFields /\ isOnline = FALSE /\ cloudAccepts = FALSE

Init ==
  /\ recordedFrames \in {Null} \cup {Some(r) : r \in Recordings}
  /\ savedSigns \in {Null} \cup {Some(lib) : lib \in Libraries}
  /\ results = <<>>
  /\ best = Null
  /\ call = "none"
  /\ ExtractIdle /\ NormalizeIdle /\ CompareIdle /\ DtwIdle /\ DetectorIdle /\ HybridIdle

\* a service that keeps its results array in a field: each call adds to the
\* results of the calls before it
CompareWithDatabaseKeeping ==
  /\ Len(results) <= MaxSigns
  /\ \E list \in compareWithDatabase(recordedFrames, savedSigns) :
       \E kept \in sortOutcomes(results \o list) : results' = kept
  /\ call' = "compareWithDatabase"
  /\ UNCHANGED <<recordedFrames, savedSigns, best>>
  /\ UNCHANGED <<extractVars, normalizeVars, compareVars, dtwVars, detectorVars, hybridVars>>

CompareWithDatabase ==
  /\ \E list \in compareWithDatabase(recordedFrames, savedSigns) : results' = list
  /\ call' = "compareWithDatabase"
  /\ UNCHANGED <<recordedFrames, savedSigns, best>>
  /\ UNCHANGED <<extractVars, normalizeVars, compareVars, dtwVars, detectorVars, hybridVars>>

FindBestMatch ==
  /\ \E list \in compareWithDatabase(recordedFrames, savedSigns) :
       /\ results' = list
       /\ best' = bestOf(list)
  /\ call' = "findBestMatch"
  /\ UNCHANGED <<recordedFrames, savedSigns>>
  /\ UNCHANGED <<extractVars, normalizeVars, compareVars, dtwVars, detectorVars, hybridVars>>

Next == CompareWithDatabase \/ FindBestMatch

Spec == Init /\ [][Next]_vars

(***************************************************************************)
(* Properties of the matcher, checked under Spec.                          *)
(***************************************************************************)
candidate == recordedFrames[1]
library   == savedSigns[1]

Called == call # "none"

\* both arguments present and the recording non-empty
ComparableInputs ==
  recordedFrames # Null /\ savedSigns # Null /\ Len(candidate) > 0

HasValidHand(frame) ==
  "hands" \in DOMAIN frame
    /\ \E h \in 1..Len(frame.hands) : Len(frame.hands[h].landmarks) = 21

LibraryIndex(id) == CHOOSE k \in 1..Len(library) : library[k].id = id

\* C1: every similarity returned by compareSequences is a number s with
\* 0 <= s <= 1, never NaN, whatever the two sequences are.
ScoreInUnitInterval ==
  \A i \in 1..Len(results) :
    /\ ~isNaN(results[i].similarity)
    /\ isFinite(results[i].similarity)
    /\ 0 <= results[i].similarity
    /\ results[i].similarity <= SCALE

\* C2: when the recording is identical to the stored frames of a library
\* entry, findBestMatch returns that entry, with a similarity at or above
\* SIMILARITY_THRESHOLD.
IdenticalEntryIsBestMatch ==
  (call = "findBestMatch" /\ ComparableInputs) =>
    \A k \in 1..Len(library) :
      (HasKeyframes(library[k]) /\ library[k].keyframes = candidate) =>
        /\ best # Null
        /\ best[1].signId = library[k].id
        /\ GreaterEq(best[1].similarity, SIMILARITY_THRESHOLD)

\* C3: when no frame of the recording has a hand with exactly 21 landmarks,
\* compareWithDatabase returns the empty list, whatever the library holds.
NoValidHandGivesEmptyList ==
  (Called /\ recordedFrames # Null
     /\ \A i \in 1..Len(candidate) : ~HasValidHand(candidate[i]))
    => results = <<>>

\* C5: the returned list is in non-increasing order of similarity, and
\* results of equal similarity keep the order of their entries in the library.
ResultsSortedDescendingStable ==
  (Called /\ ComparableInputs) =>
    \A i, j \in 1..Len(results) :
      i < j =>
        /\ GreaterEq(results[i].similarity, results[j].similarity)
        /\ results[i].similarity = results[j].similarity
             => LibraryIndex(results[i].signId) < LibraryIndex(results[j].signId)

\* C6: findBestMatch returns the first element of the list when that
\* element's isMatch flag is true, and null in every other case.
BestIsTopMatchOrNull ==
  call = "findBestMatch" =>
    /\ (Len(results) > 0 /\ results[1].isMatch) => best = Some(results[1])
    /\ (Len(results) = 0 \/ ~results[1].isMatch) => best = Null

BestIsTopMatchSeen ==
  /\ call = "findBestMatch"
  /\ Len(results) >= 2
  /\ results[1].isMatch
  /\ best = Some(results[1])

\* C7: every result has isMatch = (similarity >= SIMILARITY_THRESHOLD), with
\* the one threshold for every library entry.
IsMatchIffAtThreshold ==
  \A i \in 1..Len(results) :
    results[i].isMatch
      <=> (~isNaN(results[i].similarity)
             /\ results[i].similarity >= SIMILARITY_THRESHOLD)

IsMatchIffAtThresholdSeen ==
  /\ Len(results) = 2
  /\ results[1].isMatch
  /\ results[1].similarity < SCALE
  /\ ~results[2].isMatch

\* C8: for a non-empty recording the list holds exactly one result, with
\* the entry's id and name, for each library entry that has at least one
\* stored frame, and no result for an entry without stored frames.
OneResultPerEntryWithFrames ==
  (Called /\ ComparableInputs) =>
    /\ Len(results) = Cardinality({k \in 1..Len(library) : HasKeyframes(library[k])})
    /\ \A k \in 1..Len(library) :
         Cardinality({i \in 1..Len(results) :
                        /\ results[i].signId = library[k].id
                        /\ results[i].signName = library[k].name})
           = IF HasKeyframes(library[k]) THEN 1 ELSE 0

OneResultPerEntryWithFramesSeen ==
  /\ Called /\ ComparableInputs
  /\ Len(library) = 2
  /\ \E k \in 1..2 : ~HasKeyframes(library[k])
  /\ Len(results) = 1
  /\ results[1].similarity = 0

\* C9: a library entry whose comparison fails (a stored frame without a
\* hands list) is skipped: the list holds no result for it.
MalformedEntrySkipped ==
  (Called /\ ComparableInputs) =>
    \A k \in 1..Len(library) :
      (HasKeyframes(library[k])
         /\ \E f \in 1..Len(library[k].keyframes) :
              extractFeaturesThrows(library[k].keyframes[f]))
        => \A i \in 1..Len(results) : results[i].signId # library[k].id

\* C10: with an empty or missing recording, or an empty or missing library,
\* compareWithDatabase returns the empty list and findBestMatch returns null.
EmptyInputGivesEmptyAndNull ==
  (Called /\ (\/ recordedFrames = Null
              \/ savedSigns = Null
              \/ Len(candidate) = 0
              \/ Len(library) = 0)) =>
    /\ results = <<>>
    /\ call = "findBestMatch" => best = Null

EmptyInputGivesEmptyAndNullSeen ==
  /\ call = "findBestMatch"
  /\ recordedFrames # Null /\ Len(candidate) = 0
  /\ savedSigns # Null /\ Len(library) > 0
  /\ \E k \in 1..Len(library) : HasKeyframes(library[k])
  /\ results = <<>>
  /\ best = Null

\* the sort of line 274 has a defined outcome on the list: no similarity is NaN
SortDefined(list) == \A i \in 1..Len(list) : ~isNaN(list[i].similarity)

InitExtract ==
  /\ frameData \in ExtractPool
  /\ features = Idle
  /\ thrown = FALSE
  /\ MatcherIdle /\ NormalizeIdle /\ CompareIdle /\ DtwIdle /\ DetectorIdle /\ HybridIdle

ExtractFeatures ==
  /\ features = Idle /\ ~thrown
  /\ thrown' = extractFeaturesThrows(frameData)
  /\ features' = IF extractFeaturesThrows(frameData) THEN Idle
                 ELSE extractFeatures(frameData)
  /\ UNCHANGED frameData
  /\ UNCHANGED <<matcherVars, normalizeVars, compareVars, dtwVars, detectorVars, hybridVars>>

NextExtract == ExtractFeatures

SpecExtract == InitExtract /\ [][NextExtract]_vars

\* C4: extractFeatures returns a vector of length 156 for every frame,
\* whatever the number of hands and of landmarks per hand.
FeatureLengthIs156 == (features # Idle) => Len(features) = 156

\* C20: in a feature vector of two segments of 78 numbers, segment h
\* (h = 1, 2) holds the features of hand h of the frame when that hand has
\* 21 landmarks, and zeros when the frame has no hand h or hand h has not
\* 21 landmarks.
HandOwnsItsSegment ==
  (features # Idle /\ Len(features) = 156) =>
    \A h \in 1..2 :
      SubSeq(features, 78 * (h - 1) + 1, 78 * h)
        = IF h <= Len(frameData.hands) /\ Len(frameData.hands[h].landmarks) = 21
          THEN HandFeatures(frameData.hands[h])
          ELSE Zeros(78)

\* C23: extractFeatures returns a vector for every frame and never throws,
\* and the vector holds only zeros when the frame has no hand with exactly 21
\* landmarks.
ExtractFeaturesIsTotal ==
  /\ ~thrown
  /\ (features # Idle /\ ~HasValidHand(frameData))
       => \A i \in 1..Len(features) : features[i] = 0

\* the facial reference of a frame: the centre is the mean of the two eye
\* corners and the nose tip, the scale the larger of the distance between the
\* eyes and the distance from forehead to chin
faceCenter(face) ==
  LET leftEye == face.landmarks[33]
      rightEye == face.landmarks[263]
      noseTip == face.landmarks[1]
  IN Point((leftEye.x + rightEye.x + noseTip.x) \div 3,
           (leftEye.y + rightEye.y + noseTip.y) \div 3,
           (leftEye.z + rightEye.z + noseTip.z) \div 3)

faceDistance(p1, p2) ==
  MathSqrt((p1.x - p2.x) * (p1.x - p2.x)
         + (p1.y - p2.y) * (p1.y - p2.y)
         + (p1.z - p2.z) * (p1.z - p2.z))

faceScale(face) ==
  MathMax(faceDistance(face.landmarks[33], face.landmarks[263]),
          faceDistance(face.landmarks[10], face.landmarks[175]))

\* (coord - faceCenter) / scale
faceRelative(coord, center, scale) == ((coord - center) * SCALE) \div scale

HasFace(frame) == "face" \in DOMAIN frame /\ faceScale(frame.face) # 0

\* C21: for a frame with face landmarks of non-zero scale, the coordinates
\* extractFeatures uses for a hand of 21 landmarks are the landmark's
\* coordinates minus the face centre, divided by the face scale (each weighted
\* 1.5 for a key landmark); the wrist-relative coordinates are used only for
\* a frame without a face.
FaceRelativeCoordinates ==
  (/\ features # Idle
   /\ HasFace(frameData)
   /\ Len(frameData.hands) > 0
   /\ Len(frameData.hands[1].landmarks) = 21) =>
    \A index \in 0..20 :
      LET landmark == frameData.hands[1].landmarks[index + 1]
          center == faceCenter(frameData.face)
          scale == faceScale(frameData.face)
      IN /\ features[3 * index + 1] = Weighted(faceRelative(landmark.x, center.x, scale), index)
         /\ features[3 * index + 2] = Weighted(faceRelative(landmark.y, center.y, scale), index)
         /\ features[3 * index + 3] = Weighted(faceRelative(landmark.z, center.z, scale), index)

(***************************************************************************)
(* Specification of normalizeSequence as an operation on one recording.    *)
(* The frames of a recording carry the timestamps 1, 2, ..., so that the   *)
(* frame chosen for each position of the result can be told.               *)
(***************************************************************************)
Stamped(t, hs) == [timestamp |-> t, hands |-> hs]

\* a recording of n frames: every frame with a hand, none, or every other one
RecordingOf(n, kind) ==
  [t \in 1..n |->
     Stamped(t, IF kind = "hand" \/ (kind = "mixed" /\ t % 2 = 1) THEN <<handA>>
                ELSE <<>>)]

NormalizeInputs ==
  {RecordingOf(n, kind) : n \in 0..MaxLength, kind \in {"hand", "none", "mixed"}}

InitNormalize ==
  /\ inputFrames \in NormalizeInputs
  /\ normalized = Null
  /\ MatcherIdle /\ ExtractIdle /\ CompareIdle /\ DtwIdle /\ DetectorIdle /\ HybridIdle

NormalizeSequence ==
  /\ normalized = Null
  /\ normalized' = Some(normalizeSequence(inputFrames))
  /\ UNCHANGED inputFrames
  /\ UNCHANGED <<matcherVars, extractVars, compareVars, dtwVars, detectorVars, hybridVars>>

NextNormalize == NormalizeSequence

SpecNormalize == InitNormalize /\ [][NextNormalize]_vars

\* the frames of the recording that have a hand with 21 landmarks
ValidFrameCount ==
  Cardinality({t \in 1..Len(inputFrames) : HasValidHand(inputFrames[t])})

\* C13: normalizeSequence returns exactly TARGET_FRAMES frames for every
\* non-empty recording, shorter or longer than TARGET_FRAMES, so that the two
\* lists mapped to feature vectors for calculateDTW have the same length.
NormalizedHasTargetLength ==
  (normalized # Null /\ Len(inputFrames) > 0)
    => Len(normalized[1]) = TARGET_FRAMES

NormalizedHasTargetLengthSeen ==
  /\ normalized # Null
  /\ Len(inputFrames) = 40
  /\ Len(normalized[1]) = 60

\* C16: position i (0 <= i < TARGET_FRAMES) of the result holds the frame
\* of index min(r, n - 1) of the recording of n frames, where r is the integer
\* nearest to i * (n - 1) / (TARGET_FRAMES - 1), a half rounding up; every
\* frame of the result is a frame of the recording.
ResampledByNearestIndex ==
  (normalized # Null /\ Len(inputFrames) > 0) =>
    \A i \in 0..(TARGET_FRAMES - 1) :
      \E r \in 0..Len(inputFrames) :
        /\ (2 * r - 1) * (TARGET_FRAMES - 1) <= 2 * i * (Len(inputFrames) - 1)
        /\ 2 * i * (Len(inputFrames) - 1) < (2 * r + 1) * (TARGET_FRAMES - 1)
        /\ normalized[1][i + 1]
             = inputFrames[(IF r < Len(inputFrames) - 1 THEN r
                            ELSE Len(inputFrames) - 1) + 1]

ResampledByNearestIndexSeen ==
  /\ normalized # Null
  /\ Len(inputFrames) = 40
  /\ normalized[1][1].timestamp = 1
  /\ normalized[1][2].timestamp = 2
  /\ normalized[1][3].timestamp = 2
  /\ normalized[1][TARGET_FRAMES].timestamp = 40

\* C26: the frames of the result are in the order of the recording (the
\* index of the frame chosen never decreases from one position to the next),
\* the first is the first frame of the recording and the last its last frame,
\* and a recording of at most TARGET_FRAMES frames has every frame in the
\* result.  The frame of index t of the recording has the timestamp t + 1.
OrderAndEndpointsPreserved ==
  (normalized # Null /\ Len(inputFrames) > 0) =>
    LET out == normalized[1]
    IN /\ \A i \in 1..(Len(out) - 1) : out[i].timestamp <= out[i + 1].timestamp
       /\ out[1] = inputFrames[1]
       /\ out[Len(out)] = inputFrames[Len(inputFrames)]
       /\ Len(inputFrames) <= TARGET_FRAMES
            => \A t \in 1..Len(inputFrames) : \E i \in 1..Len(out) : out[i] = inputFrames[t]

OrderAndEndpointsPreservedSeen ==
  /\ normalized # Null
  /\ Len(inputFrames) = MaxLength
  /\ normalized[1][1].timestamp = 1
  /\ normalized[1][2].timestamp = 2
  /\ normalized[1][TARGET_FRAMES - 1].timestamp < MaxLength
  /\ normalized[1][TARGET_FRAMES].timestamp = MaxLength

\* C18: a recording with fewer than MIN_QUALITY_FRAMES frames that have a
\* hand with 21 landmarks is returned as it is; otherwise only frames with
\* such a hand are placed in the result.
ShortInputReturnedUnresampled ==
  normalized # Null =>
    IF ValidFrameCount < MIN_QUALITY_FRAMES THEN normalized[1] = inputFrames
    ELSE \A i \in 1..Len(normalized[1]) : HasValidHand(normalized[1][i])

(***************************************************************************)
(* Specification of compareSequences as an operation on two sequences: the *)
(* first is compared with itself, then with the second.                    *)
(***************************************************************************)
CompareInputs ==
  {<<sequence1, sequence2>> :
     sequence1 \in Recordings, sequence2 \in StoredSequences \cup {<<>>}}

InitCompare ==
  /\ compared \in CompareInputs
  /\ selfScore = Null
  /\ score = Null
  /\ reverseScore = Null
  /\ MatcherIdle /\ ExtractIdle /\ NormalizeIdle /\ DtwIdle /\ DetectorIdle /\ HybridIdle

CompareWithItself ==
  /\ selfScore = Null
  /\ selfScore' = Some(compareSequences(compared[1], compared[1]))
  /\ UNCHANGED <<compared, score, reverseScore>>
  /\ UNCHANGED <<matcherVars, extractVars, normalizeVars, dtwVars, detectorVars, hybridVars>>

CompareSequences ==
  /\ selfScore # Null /\ score = Null
  /\ score' = Some(compareSequences(compared[1], compared[2]))
  /\ UNCHANGED <<compared, selfScore, reverseScore>>
  /\ UNCHANGED <<matcherVars, extractVars, normalizeVars, dtwVars, detectorVars, hybridVars>>

CompareReversed ==
  /\ score # Null /\ reverseScore = Null
  /\ reverseScore' = Some(compareSequences(compared[2], compared[1]))
  /\ UNCHANGED <<compared, selfScore, score>>
  /\ UNCHANGED <<matcherVars, extractVars, normalizeVars, dtwVars, detectorVars, hybridVars>>

NextCompare == CompareWithItself \/ CompareSequences \/ CompareReversed

SpecCompare == InitCompare /\ [][NextCompare]_vars

\* C11: compareSequences returns exactly 0 when either sequence is empty,
\* whatever the other sequence is.
EmptySequenceScoresZero ==
  /\ (selfScore # Null /\ Len(compared[1]) = 0) => selfScore[1] = 0
  /\ (score # Null /\ (Len(compared[1]) = 0 \/ Len(compared[2]) = 0))
       => score[1] = 0

EmptySequenceScoresZeroSeen ==
  /\ score # Null
  /\ Len(compared[1]) = 0
  /\ compared[2] = <<frame0>>
  /\ score[1] = 0

\* C12: the value compareSequences returns is never NaN and never infinite:
\* a non-finite value arising at any step has been replaced by 0.
NonFiniteNeverReturned ==
  score # Null => (~isNaN(score[1]) /\ isFinite(score[1]))

\* C14: for a sequence whose frames all have a hand with 21 landmarks,
\* the score of the sequence with itself is at least its score with any
\* other sequence.
SelfScoreIsMaximal ==
  (/\ score # Null
   /\ Len(compared[1]) > 0
   /\ \A i \in 1..Len(compared[1]) : HasValidHand(compared[1][i]))
    => GreaterEq(selfScore[1], score[1])

\* C24: compareSequences is symmetric: the two sequences exchanged give the
\* same value.
CompareSequencesSymmetric ==
  reverseScore # Null => reverseScore = score

CompareSequencesSymmetricSeen ==
  /\ reverseScore # Null
  /\ compared[1] = <<frameC>>
  /\ compared[2] = <<frameA, frameC>>
  /\ isFinite(score[1]) /\ score[1] > 0 /\ score[1] < selfScore[1]
  /\ reverseScore = score

\* every frame of the sequence has a hand with 21 landmarks
AllFramesValid(sequence) ==
  \A i \in 1..Len(sequence) : HasValidHand(sequence[i])

\* C25: when one of the two sequences holds a frame without a hand of 21
\* landmarks and every frame of the other has such a hand, compareSequences
\* returns 0.  (The sequences of the model are shorter than TARGET_FRAMES, so
\* every frame of a sequence is still in it after resampling.)
OneSidedHandlessScoresZero ==
  (/\ score # Null
   /\ Len(compared[1]) > 0 /\ Len(compared[2]) > 0
   /\ AllFramesValid(compared[1]) # AllFramesValid(compared[2]))
    => score[1] = 0

OneSidedHandlessScoresZeroSeen ==
  /\ score # Null
  /\ compared[1] = <<frameA, frame0>>
  /\ compared[2] = <<frameA>>
  /\ selfScore[1] > 0
  /\ score[1] = 0

(***************************************************************************)
(* Specification of calculateDTW as an operation on two feature sequences. *)
(***************************************************************************)
FeatureSequences == SeqsUpTo(FeatureVectors, MaxFrames) \ {<<>>}

DtwInputs == {<<seq1, seq2>> : seq1 \in FeatureSequences, seq2 \in FeatureSequences}

InitDtw ==
  /\ dtwArguments \in DtwInputs
  /\ dtw = Null
  /\ dtwReturned = Null
  /\ MatcherIdle /\ ExtractIdle /\ NormalizeIdle /\ CompareIdle /\ DetectorIdle /\ HybridIdle

CalculateDTW ==
  /\ dtw = Null
  /\ dtw' = Some(dtwMatrix(dtwArguments[1], dtwArguments[2]))
  /\ dtwReturned' = Some(calculateDTW(dtwArguments[1], dtwArguments[2]))
  /\ UNCHANGED dtwArguments
  /\ UNCHANGED <<matcherVars, extractVars, normalizeVars, compareVars, detectorVars, hybridVars>>

NextDtw == CalculateDTW

SpecDtw == InitDtw /\ [][NextDtw]_vars

\* C17: the matrix D of calculateDTW on sequences of lengths m and n has
\* D[0][0] = d(0,0), D[i][0] = D[i-1][0] + d(i,0), D[0][j] = D[0][j-1] + d(0,j)
\* and D[i][j] = d(i,j) + min(D[i-1][j], D[i][j-1], D[i-1][j-1]) for i, j >= 1,
\* d the Euclidean distance of the two vectors, and the value returned is
\* D[m-1][n-1] / (m + n).
DtwFollowsRecurrence ==
  dtw # Null =>
    LET D == dtw[1]
        m == Len(dtwArguments[1])
        n == Len(dtwArguments[2])
        d(i, j) == euclideanDistance(dtwArguments[1][i], dtwArguments[2][j])
    IN /\ Len(D) = m
       /\ \A i \in 1..m : Len(D[i]) = n
       /\ D[1][1] = d(1, 1)
       /\ \A i \in 2..m : D[i][1] = Add(D[i - 1][1], d(i, 1))
       /\ \A j \in 2..n : D[1][j] = Add(D[1][j - 1], d(1, j))
       /\ \A i \in 2..m, j \in 2..n :
            D[i][j] = Add(d(i, j), Min3(D[i - 1][j], D[i][j - 1], D[i - 1][j - 1]))
       /\ dtwReturned[1] = DivInt(D[m][n], m + n)

DtwFollowsRecurrenceSeen ==
  /\ dtw # Null
  /\ Len(dtwArguments[1]) = 2 /\ Len(dtwArguments[2]) = 2
  /\ dtw[1][2][2] < dtw[1][1][2]
  /\ dtw[1][2][2] < dtw[1][2][1]
  /\ dtw[1][1][1] > 0
  /\ isFinite(dtwReturned[1]) /\ dtwReturned[1] > 0

MaxCallbacks == 6   \* calls of the results callback followed

InitDetector ==
  /\ DetectorFields
  /\ isAndroid \in BOOLEAN
  /\ MatcherIdle /\ ExtractIdle /\ NormalizeIdle /\ CompareIdle /\ DtwIdle /\ HybridIdle

\* line 120: the frame is processed
Processes(ready) == ready /\ handLandmarker = "open" /\ ~isProcessing

\* lines 124-128: on Android a frame less than 200 ms after the last is put off
PutOff(ready, throttled) == Processes(ready) /\ isAndroid /\ throttled

\* lines 132-135: detectForVideo is called
Detects(ready, throttled) == Processes(ready) /\ ~PutOff(ready, throttled)

\* lines 150-155: the error of detectForVideo is rethrown off Android
Throws(ready, throttled, fails) == Detects(ready, throttled) /\ fails /\ ~isAndroid

\* lines 147-149: the results callback is called
Invokes(ready, throttled, fails) == Detects(ready, throttled) /\ ~fails /\ onResults

\* one call of detectHands (lines 119-167): ready is readyState >= 2 of the
\* video element, throttled the outcome of the clock test of line 125, fails
\* whether detectForVideo throws
detectHands(ready, throttled, fails) ==
  /\ Invokes(ready, throttled, fails) => callbacks < MaxCallbacks
  /\ callbacks' = IF Invokes(ready, throttled, fails) THEN callbacks + 1 ELSE callbacks
  /\ isProcessing' = IF Detects(ready, throttled) THEN FALSE ELSE isProcessing
  /\ scheduled' = IF Throws(ready, throttled, fails) THEN "none"
                  ELSE IF isAndroid THEN "timer" ELSE "frame"
  /\ animationFrameId' = IF ~Throws(ready, throttled, fails) /\ ~isAndroid THEN "set"
                         ELSE animationFrameId

\* line 47 and the call of line 53
DetectorInitialize ==
  /\ initializing = "notCalled"
  /\ onResults' = TRUE
  /\ initializing' = "awaitVision"
  /\ UNCHANGED <<handLandmarker, faceLandmarker, isProcessing, animationFrameId,
                 isAndroid, scheduled, stopped, callbacks, callbacksAtStop>>
  /\ UNCHANGED <<matcherVars, extractVars, normalizeVars, compareVars, dtwVars,
                 hybridVars>>

\* lines 57-62: the fileset is loaded, or the load fails or times out
VisionLoaded ==
  /\ initializing = "awaitVision"
  /\ \E ok \in BOOLEAN :
       initializing' = IF ok THEN "awaitHandLandmarker" ELSE "failed"
  /\ UNCHANGED <<handLandmarker, faceLandmarker, onResults, isProcessing,
                 animationFrameId, isAndroid, scheduled, stopped, callbacks,
                 callbacksAtStop>>
  /\ UNCHANGED <<matcherVars, extractVars, normalizeVars, compareVars, dtwVars,
                 hybridVars>>

\* lines 88-93: the hand landmarker is created and assigned, or creation fails
HandLandmarkerCreated ==
  /\ initializing = "awaitHandLandmarker"
  /\ \E ok \in BOOLEAN :
       /\ handLandmarker' = IF ok THEN "open" ELSE handLandmarker
       /\ initializing' = IF ok THEN "awaitFaceLandmarker" ELSE "failed"
  /\ UNCHANGED <<faceLandmarker, onResults, isProcessing, animationFrameId,
                 isAndroid, scheduled, stopped, callbacks, callbacksAtStop>>
  /\ UNCHANGED <<matcherVars, extractVars, normalizeVars, compareVars, dtwVars,
                 hybridVars>>

\* lines 96-111: the face landmarker is created and assigned, or it is not
\* available; then the detection loop is started
FaceLandmarkerCreated ==
  /\ initializing = "awaitFaceLandmarker"
  /\ \E ok, ready, throttled, fails \in BOOLEAN :
       /\ faceLandmarker' = IF ok THEN "open" ELSE faceLandmarker
       /\ detectHands(ready, throttled, fails)
       /\ initializing' = IF Throws(ready, throttled, fails) THEN "failed" ELSE "running"
  /\ UNCHANGED <<handLandmarker, onResults, isAndroid, stopped, callbacksAtStop>>
  /\ UNCHANGED <<matcherVars, extractVars, normalizeVars, compareVars, dtwVars,
                 hybridVars>>

\* the animation frame or the timer of the loop fires
DetectHands ==
  /\ scheduled # "none"
  /\ \E ready, throttled, fails \in BOOLEAN : detectHands(ready, throttled, fails)
  /\ UNCHANGED <<handLandmarker, faceLandmarker, onResults, isAndroid, initializing,
                 stopped, callbacksAtStop>>
  /\ UNCHANGED <<matcherVars, extractVars, normalizeVars, compareVars, dtwVars,
                 hybridVars>>

\* stop (lines 169-197)
Stop ==
  /\ initializing # "notCalled"
  /\ ~stopped
  /\ animationFrameId' = "null"
  /\ scheduled' = IF animationFrameId = "set" /\ scheduled = "frame" THEN "none"
                  ELSE scheduled
  /\ handLandmarker' = "null"
  /\ faceLandmarker' = "null"
  /\ isProcessing' = FALSE
  /\ stopped' = TRUE
  /\ callbacksAtStop' = Some(callbacks)
  /\ UNCHANGED <<onResults, isAndroid, initializing, callbacks>>
  /\ UNCHANGED <<matcherVars, extractVars, normalizeVars, compareVars, dtwVars,
                 hybridVars>>

NextDetector ==
  \/ DetectorInitialize
  \/ VisionLoaded
  \/ HandLandmarkerCreated
  \/ FaceLandmarkerCreated
  \/ DetectHands
  \/ Stop

SpecDetector == InitDetector /\ [][NextDetector]_vars

\* C27: once stop has returned, the results callback is not called again
\* and no landmarker is held, also when stop ran while initialize was waiting
\* for the fileset or for a landmarker.
StoppedDetectorIsSilent ==
  stopped =>
    /\ callbacks = callbacksAtStop[1]
    /\ handLandmarker = "null"
    /\ faceLandmarker = "null"

(***************************************************************************)
(* HybridSignService (part_003 18-229): signs are saved to the cloud when  *)
(* the service is online and signed in, and to IndexedDB otherwise; the    *)
(* local signs are migrated to the cloud by initialize and by the 'online' *)
(* listener.  A sign is the number of the saveSign call that stored it.    *)
(* Each await of initialize and of migrateLocalDataToSupabase is a step;   *)
(* saveSign is one step.  A cloud save succeeds when cloudAccepts holds at *)
(* the time it is made.                                                    *)
(***************************************************************************)
InitHybrid ==
  /\ HybridFields
  /\ isOnline \in BOOLEAN
  /\ cloudAccepts \in BOOLEAN
  /\ MatcherIdle /\ ExtractIdle /\ NormalizeIdle /\ CompareIdle /\ DtwIdle /\ DetectorIdle

\* the list signDatabase.getAllSigns returns
RECURSIVE InOrder(_)
InOrder(S) ==
  IF S = {} THEN <<>>
  ELSE LET least == CHOOSE x \in S : \A y \in S : x <= y
       IN <<least>> \o InOrder(S \ {least})

\* line 182 of a call of migrateLocalDataToSupabase, up to its first await
Started(auth, completed) ==
  IF completed \/ ~auth THEN [NotStarted EXCEPT !.pc = "done"]
  ELSE [NotStarted EXCEPT !.pc = "getAllSigns"]

\* the sign the run is at
CurrentSign(run) == migration[run].localSigns[migration[run].i]

\* the run is at the last sign of its list
AtLastSign(run) == migration[run].i = Len(migration[run].localSigns)

\* the for loop of line 193 goes to its next sign, or ends (line 210)
Advanced(run) ==
  IF AtLastSign(run) THEN [migration[run] EXCEPT !.pc = "done"]
  ELSE [migration[run] EXCEPT !.pc = "saveSign", !.i = migration[run].i + 1]

\* initialize is called; it awaits signDatabase.initialize (line 39)
HybridInitialize ==
  /\ initializePc = "notCalled"
  /\ initializePc' = "awaitDatabase"
  /\ UNCHANGED <<isOnline, hasSupabaseAuth, migrationCompleted, localStore, cloudStore,
                 savedLocally, saved, cloudAccepts, onlineFired, migration>>
  /\ UNCHANGED <<matcherVars, extractVars, normalizeVars, compareVars, dtwVars,
                 detectorVars>>

\* lines 42-44: online, initialize awaits supabaseSignService.initialize;
\* offline, it returns
DatabaseInitialized ==
  /\ initializePc = "awaitDatabase"
  /\ initializePc' = IF isOnline THEN "awaitSupabase" ELSE "done"
  /\ UNCHANGED <<isOnline, hasSupabaseAuth, migrationCompleted, localStore, cloudStore,
                 savedLocally, saved, cloudAccepts, onlineFired, migration>>
  /\ UNCHANGED <<matcherVars, extractVars, normalizeVars, compareVars, dtwVars,
                 detectorVars>>

\* lines 45-53: signed in, the migration is started; not signed in, the
\* service stays on local storage
SupabaseInitialized ==
  /\ initializePc = "awaitSupabase"
  /\ \E ok \in BOOLEAN :
       /\ hasSupabaseAuth' = ok
       /\ initializePc' = IF ok THEN "awaitMigration" ELSE "done"
       /\ migration' = IF ok THEN [migration EXCEPT !["initialize"] = Started(TRUE, migrationCompleted)]
                       ELSE migration
  /\ UNCHANGED <<isOnline, migrationCompleted, localStore, cloudStore, savedLocally,
                 saved, cloudAccepts, onlineFired>>
  /\ UNCHANGED <<matcherVars, extractVars, normalizeVars, compareVars, dtwVars,
                 detectorVars>>

\* the 'online' listener (lines 25-29) and syncIfPossible (217-221)
Online ==
  /\ ~isOnline
  /\ migration["online"].pc \in {"idle", "done"}
  /\ isOnline' = TRUE
  /\ onlineFired' = TRUE
  /\ migration' = IF hasSupabaseAuth /\ ~migrationCompleted
                  THEN [migration EXCEPT !["online"] = Started(hasSupabaseAuth, migrationCompleted)]
                  ELSE migration
  /\ UNCHANGED <<hasSupabaseAuth, migrationCompleted, localStore, cloudStore,
                 savedLocally, saved, cloudAccepts, initializePc>>
  /\ UNCHANGED <<matcherVars, extractVars, normalizeVars, compareVars, dtwVars,
                 detectorVars>>

\* the 'offline' listener (lines 31-34)
Offline ==
  /\ isOnline
  /\ isOnline' = FALSE
  /\ UNCHANGED <<hasSupabaseAuth, migrationCompleted, localStore, cloudStore,
                 savedLocally, saved, cloudAccepts, onlineFired, initializePc, migration>>
  /\ UNCHANGED <<matcherVars, extractVars, normalizeVars, compareVars, dtwVars,
                 detectorVars>>

\* the cloud starts or stops accepting saves
CloudChanges ==
  /\ cloudAccepts' = ~cloudAccepts
  /\ UNCHANGED <<isOnline, hasSupabaseAuth, migrationCompleted, localStore, cloudStore,
                 savedLocally, saved, onlineFired, initializePc, migration>>
  /\ UNCHANGED <<matcherVars, extractVars, normalizeVars, compareVars, dtwVars,
                 detectorVars>>

\* saveSign (lines 57-78)
SaveSign ==
  /\ saved < MaxSaves
  /\ saved' = saved + 1
  /\ IF isOnline /\ hasSupabaseAuth /\ cloudAccepts
     THEN /\ cloudStore' = [cloudStore EXCEPT ![saved + 1] = 1]
          /\ UNCHANGED <<localStore, savedLocally>>
     ELSE /\ localStore' = localStore \cup {saved + 1}
          /\ savedLocally' = savedLocally \cup {saved + 1}
          /\ UNCHANGED cloudStore
  /\ UNCHANGED <<isOnline, hasSupabaseAuth, migrationCompleted, cloudAccepts,
                 onlineFired, initializePc, migration>>
  /\ UNCHANGED <<matcherVars, extractVars, normalizeVars, compareVars, dtwVars,
                 detectorVars>>

\* lines 185-189: the list of local signs has been read
GotAllSigns(run) ==
  /\ migration[run].pc = "getAllSigns"
  /\ migration' =
       [migration EXCEPT ![run] =
          IF localStore = {} THEN [@ EXCEPT !.pc = "done"]
          ELSE [pc |-> "saveSign", localSigns |-> InOrder(localStore), i |-> 1]]
  /\ migrationCompleted' = (migrationCompleted \/ localStore = {})
  /\ UNCHANGED <<isOnline, hasSupabaseAuth, localStore, cloudStore, savedLocally,
                 saved, cloudAccepts, onlineFired, initializePc>>
  /\ UNCHANGED <<matcherVars, extractVars, normalizeVars, compareVars, dtwVars,
                 detectorVars>>

\* a migration that removes the local sign whether or not its save succeeded
CloudSaveReturnedDropping(run) ==
  /\ migration[run].pc = "saveSign"
  /\ cloudAccepts => cloudStore[CurrentSign(run)] < MaxCopies
  /\ cloudStore' = IF cloudAccepts
                   THEN [cloudStore EXCEPT ![CurrentSign(run)] = @ + 1]
                   ELSE cloudStore
  /\ migration' = [migration EXCEPT ![run] = [@ EXCEPT !.pc = "deleteSign"]]
  /\ UNCHANGED <<isOnline, hasSupabaseAuth, migrationCompleted, localStore,
                 savedLocally, saved, cloudAccepts, onlineFired, initializePc>>
  /\ UNCHANGED <<matcherVars, extractVars, normalizeVars, compareVars, dtwVars,
                 detectorVars>>

\* lines 195-207: supabaseSignService.saveSign has returned or thrown
CloudSaveReturned(run) ==
  /\ migration[run].pc = "saveSign"
  /\ cloudAccepts => cloudStore[CurrentSign(run)] < MaxCopies
  /\ cloudStore' = IF cloudAccepts
                   THEN [cloudStore EXCEPT ![CurrentSign(run)] = @ + 1]
                   ELSE cloudStore
  /\ migration' = [migration EXCEPT ![run] =
                     IF cloudAccepts THEN [@ EXCEPT !.pc = "deleteSign"]
                     ELSE Advanced(run)]
  /\ migrationCompleted' = (migrationCompleted \/ (~cloudAccepts /\ AtLastSign(run)))
  /\ UNCHANGED <<isOnline, hasSupabaseAuth, localStore, savedLocally, saved,
                 cloudAccepts, onlineFired, initializePc>>
  /\ UNCHANGED <<matcherVars, extractVars, normalizeVars, compareVars, dtwVars,
                 detectorVars>>

\* lines 203-210: signDatabase.deleteSign has returned
LocalDeleteReturned(run) ==
  /\ migration[run].pc = "deleteSign"
  /\ localStore' = localStore \ {CurrentSign(run)}
  /\ migration' = [migration EXCEPT ![run] = Advanced(run)]
  /\ migrationCompleted' = (migrationCompleted \/ AtLastSign(run))
  /\ UNCHANGED <<isOnline, hasSupabaseAuth, cloudStore, savedLocally, saved,
                 cloudAccepts, onlineFired, initializePc>>
  /\ UNCHANGED <<matcherVars, extractVars, normalizeVars, compareVars, dtwVars,
                 detectorVars>>

NextHybrid ==
  \/ HybridInitialize
  \/ DatabaseInitialized
  \/ SupabaseInitialized
  \/ Online
  \/ Offline
  \/ CloudChanges
  \/ SaveSign
  \/ \E run \in Runs : GotAllSigns(run)
  \/ \E run \in Runs : CloudSaveReturned(run)
  \/ \E run \in Runs : LocalDeleteReturned(run)

SpecHybrid == InitHybrid /\ [][NextHybrid]_vars

\* every promise the service awaits is settled: each step of initialize and
\* of a migration run that can be taken is taken
HybridFairness ==
  /\ WF_vars(DatabaseInitialized)
  /\ WF_vars(SupabaseInitialized)
  /\ \A run \in Runs :
       /\ WF_vars(GotAllSigns(run))
       /\ WF_vars(CloudSaveReturned(run))
       /\ WF_vars(LocalDeleteReturned(run))

SpecHybridFair == SpecHybrid /\ HybridFairness

\* C28: every sign that saveSign has stored locally is in local storage or
\* has a record in the cloud, whichever cloud saves of a migration failed.
NoSignLost ==
  \A sign \in savedLocally : sign \in localStore \/ cloudStore[sign] > 0

\* one sign migrated and removed locally, another kept by a finished run
\* whose cloud save of it failed
NoSignLostSeen ==
  \E sign, kept \in savedLocally :
    /\ sign \notin localStore /\ cloudStore[sign] = 1
    /\ kept \in localStore /\ cloudStore[kept] = 0
    /\ \E run \in Runs :
         /\ migration[run].pc = "done"
         /\ \E k \in 1..Len(migration[run].localSigns) : migration[run].localSigns[k] = kept

\* C29: no sign stored locally gets more than one record in the cloud,
\* however the migration of initialize and the one of the 'online' listener
\* interleave.
UploadedAtMostOnce ==
  \A sign \in savedLocally : cloudStore[sign] <= 1

\* C30: when from some time on the 'online' event has fired, the service is
\* online and the cloud accepts saves, the local storage is eventually empty
\* for good: every local sign has been saved to the cloud and removed.
SignsEventuallyMigrated ==
  <>[](onlineFired /\ isOnline /\ cloudAccepts) => <>[](localStore = {})

====
